---- MODULE Spec2Model ----
(***************************************************************************)
(* PyDB: the paged B-tree table of src/main.py (Pager, Table, Cursor,      *)
(* find_leaf_page, leaf_node_insert, split_root_node, execute_insert,      *)
(* execute_select) and the transactional insert loop of src/benchmark.py.  *)
(*                                                                         *)
(* A page is modelled by its decoded node: the header fields and the cells *)
(* 0 .. num_cells-1.  Bytes of a page past its last cell are never read by *)
(* the program (a page is only ever re-typed from leaf to internal, once,  *)
(* and then its two routing cells are written), so they are not modelled.  *)
(* The page size is scaled down so that a leaf holds PageCells cells; all  *)
(* other layout constants are those of the source.                         *)
(***************************************************************************)
EXTENDS Integers, Sequences, FiniteSets, TLC

\* ------------------------------------------------------------------ bounds
PageCells == 5          \* leaf cells that fit in one (scaled-down) page
MaxKey == 5             \* row ids are drawn from 0 .. MaxKey
MaxInserts == 6         \* insert commands of one behaviour, row ids in any order
MaxAppends == 8         \* insert commands of one behaviour, row ids ascending
MaxDupKey == 1          \* row ids that may repeat are drawn from 0 .. MaxDupKey
MaxDupInserts == 5      \* insert commands of one behaviour, row ids repeating
NumInserts == 2         \* rows of the benchmark (NUM_INSERTS, 10000 in the source)

\* ------------------------------------------------- constants (src/main.py)
TABLE_MAX_PAGES == 100
ID_SIZE == 4
USERNAME_SIZE == 32
EMAIL_SIZE == 255
ROW_SIZE == ID_SIZE + USERNAME_SIZE + EMAIL_SIZE
NODE_TYPE_SIZE == 1
NODE_ROOT_SIZE == 1
NODE_PARENT_SIZE == 4
NODE_NUM_CELLS_SIZE == 4
NODE_NEXT_LEAF_SIZE == 4
COMMON_NODE_HEADER_SIZE ==
    NODE_TYPE_SIZE + NODE_ROOT_SIZE + NODE_PARENT_SIZE + NODE_NUM_CELLS_SIZE
    + NODE_NEXT_LEAF_SIZE
LEAF_NODE_KEY_SIZE == 4
LEAF_NODE_VALUE_SIZE == ROW_SIZE
LEAF_NODE_CELL_SIZE == LEAF_NODE_KEY_SIZE + LEAF_NODE_VALUE_SIZE
\* PAGE_SIZE is 4096 in the source; here a page is a header plus PageCells cells.
PAGE_SIZE == COMMON_NODE_HEADER_SIZE + PageCells * LEAF_NODE_CELL_SIZE
LEAF_NODE_SPACE_FOR_CELLS == PAGE_SIZE - COMMON_NODE_HEADER_SIZE
LEAF_NODE_MAX_CELLS == LEAF_NODE_SPACE_FOR_CELLS \div LEAF_NODE_CELL_SIZE
NODE_INTERNAL == 0
NODE_LEAF == 1
\* The largest key: 2^32 - 1 in the source.  TLC's integers are 32-bit signed, so
\* the key space is 0 .. 2^31 - 1 here and the sentinel is its largest value.
MAX_INT_KEY == 2147483647

\* ------------------------------------------------------------------ inputs
Keys == 0 .. MaxKey
\* (username, email) pairs typed after the row id in an insert command
Users == { <<"alice", "alice@x.com">> }

VARIABLES
    file,         \* the backing file mydb.db: a sequence of pages
    file_length,  \* Pager.file_length: the file's length in bytes at open
    num_pages,    \* Pager.num_pages
    pages,        \* Pager.pages: page number -> node, for the cached pages
    phase,        \* "open": a Table is live; "closed": after Table.close()
    out,          \* the last command and the lines it printed
    inserted,     \* history: the rows given to execute_insert, in order
    atClose,      \* history: num_pages, pages and the rows a select would
                  \* have printed, when close() was last called
    \* the transactional engine driven by src/benchmark.py
    records,      \* the pre-generated rows (row_id, username, email)
    wal,          \* the WAL file: the records forced to stable storage
    db,           \* the primary tree, in memory: its cells in key order
    idx,          \* the secondary index, in memory: its cells in key order
    dbFile,       \* the primary tree as last flushed to its file
    idxFile,      \* the secondary index as last flushed to its file
    wpc,          \* where the engine's process is
    pos,          \* the next operation of the transaction (index in TxnOrder)
    nrec,         \* rows whose transaction was run
    txn_id,       \* the transaction id returned by log_start
    todo,         \* recover(): the interrupted transactions still to replay
    walAtRecover  \* history: the log when recover() was last called

tableVars == << file, file_length, num_pages, pages, phase, out, inserted, atClose >>
walVars == << records, wal, db, idx, dbFile, idxFile, wpc, pos, nrec, txn_id, todo,
              walAtRecover >>
vars == << tableVars, walVars >>

\* --------------------------------------------------------------- node codec
\* A freshly allocated page whose parent field is not zero.
StalePage ==
    [ type |-> 0, is_root |-> 0, parent |-> 1, num_cells |-> 0,
      next_leaf |-> 0, cells |-> << >> ]

\* A freshly allocated page: bytearray(PAGE_SIZE), all zero.
ZeroPage ==
    [ type |-> 0, is_root |-> 0, parent |-> 0, num_cells |-> 0,
      next_leaf |-> 0, cells |-> << >> ]

\* The bytes of a cell slot that was never written.
ZeroRow == [ id |-> 0, username |-> "", email |-> "" ]
ZeroLeafCell == [ key |-> 0, value |-> ZeroRow ]

get_node_type(node) == node.type
set_node_type(node, type_val) == [ node EXCEPT !.type = type_val ]
set_node_root(node, is_root) ==
    [ node EXCEPT !.is_root = IF is_root THEN 1 ELSE 0 ]
get_node_num_cells(node) == node.num_cells
\* Cells past the new count are cut: they are never read again.
set_node_num_cells(node, n) ==
    [ node EXCEPT !.num_cells = n,
                  !.cells = IF n < Len(@) THEN SubSeq(@, 1, n) ELSE @ ]
get_node_next_leaf(node) == node.next_leaf
\* A setter that leaves the forward pointer as it was.
set_node_next_leaf_dropped(node, next_leaf_page) == node

set_node_next_leaf(node, next_leaf_page) ==
    [ node EXCEPT !.next_leaf = next_leaf_page ]

\* The leaf cell at index i (from 0); an unwritten slot reads as zero bytes.
leaf_cell(node, i) ==
    IF i + 1 <= Len(node.cells) THEN node.cells[i + 1] ELSE ZeroLeafCell

\* Key of the last cell, 0 for an empty node.
get_node_max_key(node) ==
    IF get_node_num_cells(node) = 0 THEN 0
    ELSE leaf_cell(node, get_node_num_cells(node) - 1).key

initialize_leaf_node(node) ==
    set_node_next_leaf(
        set_node_num_cells(set_node_root(set_node_type(node, NODE_LEAF), FALSE), 0),
        0)

initialize_internal_node(node) ==
    set_node_num_cells(set_node_root(set_node_type(node, NODE_INTERNAL), FALSE), 0)

serialize_row(row_id, username, email) ==
    [ id |-> row_id, username |-> username, email |-> email ]

deserialize_row(data) == << data.id, data.username, data.email >>

\* --------------------------------------------------------------- the file
\* f.seek(offset); f.read(PAGE_SIZE), for an offset inside the file.
ReadAt(f, offset) == f[(offset \div PAGE_SIZE) + 1]

\* f.seek(offset); f.write(page): a seek past the end leaves a zero-filled gap.
WriteAt(f, offset, page) ==
    LET i == (offset \div PAGE_SIZE) + 1
        n == IF i > Len(f) THEN i ELSE Len(f)
    IN [ j \in 1 .. n |->
           IF j = i THEN page ELSE IF j <= Len(f) THEN f[j] ELSE ZeroPage ]

FileLength(f) == Len(f) * PAGE_SIZE

\* ------------------------------------------------------------------ Pager
\* Variant of the capacity check that lets page TABLE_MAX_PAGES through.
PageBeyondBounds(page_num) == page_num > TABLE_MAX_PAGES

\* Pager.get_page's capacity check.
PageOutOfBounds(page_num) == page_num >= TABLE_MAX_PAGES

\* The cache after Pager.get_page(page_num) returned (no exception), for a pager
\* whose file is f and whose file_length is fl.
PagerGetPage(pgs, fl, f, page_num) ==
    IF page_num \in DOMAIN pgs THEN pgs
    ELSE LET num_pages_in_file ==
                 (fl \div PAGE_SIZE) + (IF fl % PAGE_SIZE # 0 THEN 1 ELSE 0)
         IN  IF page_num < num_pages_in_file
             THEN pgs @@ (page_num :> ReadAt(f, page_num * PAGE_SIZE))
             ELSE pgs @@ (page_num :> ZeroPage)

\* get_page on the live pager.
get_page(pgs, page_num) == PagerGetPage(pgs, file_length, file, page_num)

\* Variant of flush that seeks one page too far.
flush_next_slot(f, pgs, page_num) ==
    IF page_num \notin DOMAIN pgs THEN f
    ELSE WriteAt(f, (page_num + 1) * PAGE_SIZE, pgs[page_num])

\* Pager.flush(page_num)
flush(f, pgs, page_num) ==
    IF page_num \notin DOMAIN pgs THEN f
    ELSE WriteAt(f, page_num * PAGE_SIZE, pgs[page_num])

\* The loop of Pager.close: the given slots, in ascending order.
RECURSIVE FlushAll(_, _, _)
FlushAll(f, pgs, slots) ==
    IF slots = {} THEN f
    ELSE LET i == CHOOSE n \in slots : \A m \in slots : n <= m
         IN  FlushAll(flush(f, pgs, i), pgs, slots \ {i})

\* Pager.close: every slot of the cache that holds a page is flushed.
PagerClose(f, pgs) ==
    FlushAll(f, pgs, { i \in 0 .. TABLE_MAX_PAGES - 1 : i \in DOMAIN pgs })

\* The cache of a pager that has loaded nothing: pages = [None] * TABLE_MAX_PAGES.
NoPages == [ n \in {} |-> ZeroPage ]

\* Pager.__init__ and Table.__init__ on the file f.
TableInit(f) ==
    LET fl == FileLength(f)
        np == fl \div PAGE_SIZE
    IN  IF np = 0
        THEN LET pgs == PagerGetPage(NoPages, fl, f, 0)
                 root_node == set_node_root(initialize_leaf_node(pgs[0]), TRUE)
             IN  [ file_length |-> fl, num_pages |-> 1,
                   pages |-> [ pgs EXCEPT ![0] = root_node ] ]
        ELSE [ file_length |-> fl, num_pages |-> np, pages |-> NoPages ]

\* ------------------------------------------------------------- B-tree logic
Line(text, args) == [ text |-> text, args |-> args ]

ZeroInternalCell == [ key |-> 0, child |-> 0 ]

\* Write `cell` into slot i (from 0) of the node's cell area.
write_cell(node, i, cell, zero) ==
    LET n == IF i + 1 > Len(node.cells) THEN i + 1 ELSE Len(node.cells)
    IN  [ node EXCEPT !.cells =
            [ j \in 1 .. n |->
                IF j = i + 1 THEN cell
                ELSE IF j <= Len(node.cells) THEN node.cells[j] ELSE zero ] ]

\* new_node[0 .. hi-lo-1] = root_node[lo .. hi-1]
RECURSIVE copy_cells(_, _, _, _)
copy_cells(new_node, root_node, lo, hi) ==
    IF hi <= lo THEN new_node
    ELSE write_cell(copy_cells(new_node, root_node, lo, hi - 1),
                    hi - 1 - lo, leaf_cell(root_node, hi - 1), ZeroLeafCell)

\* Variant of the split index that rounds up.
split_index_ceil(old_max) == (old_max + 1) \div 2

\* split_index = old_max // 2
split_index_of(old_max) == old_max \div 2

\* Variant of update_root with the two child pages exchanged.
update_root_swapped(root_node, left_max_key, page_1_num, page_2_num) ==
    LET root1 == set_node_num_cells(
                     set_node_root(initialize_internal_node(root_node), TRUE), 2)
        root2 == write_cell(root1, 0,
                            [ key |-> left_max_key, child |-> page_2_num ],
                            [ key |-> 0, child |-> 0 ])
    IN  write_cell(root2, 1, [ key |-> MAX_INT_KEY, child |-> page_1_num ],
                   [ key |-> 0, child |-> 0 ])

\* Variant of update_root that leaves the is-root flag cleared.
update_root_unflagged(root_node, left_max_key, page_1_num, page_2_num) ==
    LET root1 == set_node_num_cells(initialize_internal_node(root_node), 2)
        root2 == write_cell(root1, 0,
                            [ key |-> left_max_key, child |-> page_1_num ],
                            [ key |-> 0, child |-> 0 ])
    IN  write_cell(root2, 1, [ key |-> MAX_INT_KEY, child |-> page_2_num ],
                   [ key |-> 0, child |-> 0 ])

\* Step 4 of split_root_node: the root becomes an internal node of two cells.
update_root(root_node, left_max_key, page_1_num, page_2_num) ==
    LET root1 == set_node_num_cells(
                     set_node_root(initialize_internal_node(root_node), TRUE), 2)
        root2 == write_cell(root1, 0,
                            [ key |-> left_max_key, child |-> page_1_num ],
                            ZeroInternalCell)
    IN  write_cell(root2, 1, [ key |-> MAX_INT_KEY, child |-> page_2_num ],
                   ZeroInternalCell)

split_root_node(pgs, np, row_id, row_bytes) ==
    LET pgs0 == get_page(pgs, 0)
        root_node == pgs0[0]
        page_1_num == np
        page_2_num == np + 1
        pgs1 == get_page(pgs0, page_1_num)
        left0 == initialize_leaf_node(pgs1[page_1_num])
        pgs2 == get_page(pgs1, page_2_num)
        right0 == initialize_leaf_node(pgs2[page_2_num])
        left1 == set_node_next_leaf(left0, page_2_num)
        old_max == LEAF_NODE_MAX_CELLS
        split_index == split_index_of(old_max)
        new_left_node ==
            set_node_num_cells(copy_cells(left1, root_node, 0, split_index),
                               split_index)
        right1 ==
            set_node_num_cells(copy_cells(right0, root_node, split_index, old_max),
                               old_max - split_index)
        left_max_key == get_node_max_key(new_left_node)
        \* the new row goes to the right node whatever its key
        right_count == get_node_num_cells(right1)
        new_right_node ==
            set_node_num_cells(
                write_cell(right1, right_count,
                           [ key |-> row_id, value |-> row_bytes ], ZeroLeafCell),
                right_count + 1)
        root3 == update_root(root_node, left_max_key, page_1_num, page_2_num)
    IN  [ pages |-> [ pgs2 EXCEPT ![0] = root3,
                                  ![page_1_num] = new_left_node,
                                  ![page_2_num] = new_right_node ],
          num_pages |-> np + 2,
          lines |-> << Line("DEBUG: Split Root.",
                            << left_max_key, MAX_INT_KEY, page_1_num, page_2_num >>) >> ]

\* An insert that refuses a row id the leaf already holds.
leaf_node_insert_unique(pgs, np, page_num, row_id, row_bytes) ==
    LET pgs1 == get_page(pgs, page_num)
        node == pgs1[page_num]
        num_cells == get_node_num_cells(node)
    IN  IF \E j \in 1 .. Len(node.cells) : node.cells[j].key = row_id
        THEN [ pages |-> pgs1, num_pages |-> np,
               lines |-> << Line("Error: Duplicate key.", << >>) >> ]
        ELSE IF num_cells >= LEAF_NODE_MAX_CELLS
        THEN IF node.is_root # 0
             THEN split_root_node(pgs1, np, row_id, row_bytes)
             ELSE [ pages |-> pgs1, num_pages |-> np,
                    lines |-> << Line("Error: Splitting non-root leaf not implemented.",
                                      << >>) >> ]
        ELSE [ pages |-> [ pgs1 EXCEPT ![page_num] =
                             set_node_num_cells(
                                 write_cell(node, num_cells,
                                            [ key |-> row_id, value |-> row_bytes ],
                                            ZeroLeafCell),
                                 num_cells + 1) ],
               num_pages |-> np,
               lines |-> << >> ]

\* An insert that takes a leaf for full only when it is beyond its capacity.
leaf_node_insert_late(pgs, np, page_num, row_id, row_bytes) ==
    LET pgs1 == get_page(pgs, page_num)
        node == pgs1[page_num]
        num_cells == get_node_num_cells(node)
    IN  IF num_cells > LEAF_NODE_MAX_CELLS
        THEN IF node.is_root # 0
             THEN split_root_node(pgs1, np, row_id, row_bytes)
             ELSE [ pages |-> pgs1, num_pages |-> np,
                    lines |-> << Line("Error: Splitting non-root leaf not implemented.",
                                      << >>) >> ]
        ELSE [ pages |-> [ pgs1 EXCEPT ![page_num] =
                             set_node_num_cells(
                                 write_cell(node, num_cells,
                                            [ key |-> row_id, value |-> row_bytes ],
                                            ZeroLeafCell),
                                 num_cells + 1) ],
               num_pages |-> np,
               lines |-> << >> ]

leaf_node_insert(pgs, np, page_num, row_id, row_bytes) ==
    LET pgs1 == get_page(pgs, page_num)
        node == pgs1[page_num]
        num_cells == get_node_num_cells(node)
    IN  IF num_cells >= LEAF_NODE_MAX_CELLS
        THEN IF node.is_root # 0
             THEN split_root_node(pgs1, np, row_id, row_bytes)
             ELSE [ pages |-> pgs1, num_pages |-> np,
                    lines |-> << Line("Error: Splitting non-root leaf not implemented.",
                                      << >>) >> ]
        ELSE [ pages |-> [ pgs1 EXCEPT ![page_num] =
                             set_node_num_cells(
                                 write_cell(node, num_cells,
                                            [ key |-> row_id, value |-> row_bytes ],
                                            ZeroLeafCell),
                                 num_cells + 1) ],
               num_pages |-> np,
               lines |-> << >> ]

\* The index of the first routing cell with row_id < key, or -1.
first_child_index_strict(node, row_id) ==
    LET hits == { i \in 0 .. get_node_num_cells(node) - 1 :
                    row_id < node.cells[i + 1].key }
    IN  IF hits = {} THEN -1
        ELSE CHOOSE i \in hits : \A j \in hits : i <= j

\* The index of the first routing cell with row_id <= key, or -1.
first_child_index(node, row_id) ==
    LET hits == { i \in 0 .. get_node_num_cells(node) - 1 :
                    row_id <= node.cells[i + 1].key }
    IN  IF hits = {} THEN -1
        ELSE CHOOSE i \in hits : \A j \in hits : i <= j

\* The loop of find_leaf_page, entered with page_num loaded in pgs.
RECURSIVE find_leaf_loop(_, _, _)
find_leaf_loop(pgs, page_num, row_id) ==
    LET node == pgs[page_num]
    IN  IF get_node_type(node) # NODE_INTERNAL
        THEN [ page_num |-> page_num, pages |-> pgs, lines |-> << >> ]
        ELSE LET i == first_child_index(node, row_id)
             IN  IF i < 0
                 THEN [ page_num |-> 0, pages |-> pgs,
                        lines |-> << Line("Error: Key exceeds max key in internal node.",
                                          << row_id >>) >> ]
                 ELSE LET child_page == node.cells[i + 1].child
                      IN  find_leaf_loop(get_page(pgs, child_page), child_page, row_id)

find_leaf_page(pgs, row_id) == find_leaf_loop(get_page(pgs, 0), 0, row_id)

\* execute_insert for a well-formed command: what it leaves and prints.
execute_insert(pgs, np, row_id, username, email) ==
    LET found == find_leaf_page(pgs, row_id)
        row_bytes == serialize_row(row_id, username, email)
        done == leaf_node_insert(found.pages, np, found.page_num, row_id, row_bytes)
    IN  [ pages |-> done.pages, num_pages |-> done.num_pages,
          lines |-> found.lines \o done.lines \o << Line("Executed.", << >>) >> ]

\* ------------------------------------------------------------------ Cursor
\* Cursor.start_reading: descend through cell 0 of every internal node.
RECURSIVE start_reading_loop(_, _)
start_reading_loop(pgs, page_num) ==
    LET node == pgs[page_num]
    IN  IF get_node_type(node) # NODE_INTERNAL
        THEN [ pages |-> pgs, page_num |-> page_num, cell_num |-> 0,
               end_of_table |-> (get_node_num_cells(node) = 0) ]
        ELSE LET child_page ==
                     IF Len(node.cells) >= 1 THEN node.cells[1].child ELSE 0
             IN  start_reading_loop(get_page(pgs, child_page), child_page)

start_reading(pgs) == start_reading_loop(get_page(pgs, 0), 0)

\* Cursor.advance
advance(cur) ==
    LET pgs == get_page(cur.pages, cur.page_num)
        node == pgs[cur.page_num]
        cell_num == cur.cell_num + 1
    IN  IF cell_num >= get_node_num_cells(node)
        THEN IF get_node_next_leaf(node) = 0
             THEN [ cur EXCEPT !.pages = pgs, !.cell_num = cell_num,
                               !.end_of_table = TRUE ]
             ELSE [ cur EXCEPT !.pages = pgs, !.page_num = get_node_next_leaf(node),
                               !.cell_num = 0 ]
        ELSE [ cur EXCEPT !.pages = pgs, !.cell_num = cell_num ]

\* The loop of execute_select: the rows printed so far, then the rest.
RECURSIVE select_loop(_, _)
select_loop(cur, rows) ==
    IF cur.end_of_table THEN [ pages |-> cur.pages, rows |-> rows ]
    ELSE LET pgs == get_page(cur.pages, cur.page_num)
             row_data == leaf_cell(pgs[cur.page_num], cur.cell_num).value
         IN  select_loop(advance([ cur EXCEPT !.pages = pgs ]),
                         Append(rows, deserialize_row(row_data)))

execute_select(pgs) == select_loop(start_reading(pgs), << >>)

\* ------------------------------------------------------------------ actions
InsertedKeys == { inserted[i].id : i \in 1 .. Len(inserted) }

\* The state after Table() on a database file that does not exist yet.
TableStart ==
    LET t == TableInit(<< >>)
    IN  /\ file = << >>
        /\ file_length = t.file_length
        /\ num_pages = t.num_pages
        /\ pages = t.pages
        /\ phase = "open"
        /\ out = [ cmd |-> "open", lines |-> << >> ]
        /\ inserted = << >>
        /\ atClose = [ num_pages |-> 0, pages |-> NoPages, rows |-> << >> ]

\* An insert that also writes every cached page through to the file.
ExecuteInsertWriteThrough(row_id, username, email) ==
    /\ phase = "open"
    /\ LET r == execute_insert(pages, num_pages, row_id, username, email)
       IN  /\ pages' = r.pages
           /\ num_pages' = r.num_pages
           /\ out' = [ cmd |-> "insert", lines |-> r.lines ]
           /\ file' = PagerClose(file, r.pages)
    /\ inserted' = Append(inserted, serialize_row(row_id, username, email))
    /\ UNCHANGED << file_length, phase, atClose, walVars >>

\* main: "insert <row_id> <username> <email>"
ExecuteInsert(row_id, username, email) ==
    /\ phase = "open"
    /\ LET r == execute_insert(pages, num_pages, row_id, username, email)
       IN  /\ pages' = r.pages
           /\ num_pages' = r.num_pages
           /\ out' = [ cmd |-> "insert", lines |-> r.lines ]
    /\ inserted' = Append(inserted, serialize_row(row_id, username, email))
    /\ UNCHANGED << file, file_length, phase, atClose, walVars >>

\* An insert command whose row id was not used before.
InsertNew ==
    \E row_id \in Keys \ InsertedKeys, u \in Users :
        /\ Len(inserted) < MaxInserts
        /\ ExecuteInsert(row_id, u[1], u[2])

\* main: "select"
ExecuteSelect ==
    /\ phase = "open"
    /\ LET r == execute_select(pages)
       IN  /\ pages' = r.pages
           /\ out' = [ cmd |-> "select", lines |-> r.rows ]
    /\ UNCHANGED << file, file_length, num_pages, phase, inserted, atClose, walVars >>

\* main: ".exit" or end of input: table.close(), and the process ends.
Close ==
    /\ phase = "open"
    /\ file' = PagerClose(file, pages)
    /\ atClose' = [ num_pages |-> num_pages, pages |-> pages,
                    rows |-> execute_select(pages).rows ]
    /\ phase' = "closed"
    /\ pages' = NoPages
    /\ num_pages' = 0
    /\ file_length' = 0
    /\ out' = [ cmd |-> "close", lines |-> << >> ]
    /\ UNCHANGED << inserted, walVars >>

\* The program is started again on the file it left: Table().
Open ==
    /\ phase = "closed"
    /\ LET t == TableInit(file)
       IN  /\ file_length' = t.file_length
           /\ num_pages' = t.num_pages
           /\ pages' = t.pages
    /\ phase' = "open"
    /\ out' = [ cmd |-> "open", lines |-> << >> ]
    /\ UNCHANGED << file, inserted, atClose, walVars >>

\* A direct call pager.get_page(page_num): it raises, or returns the buffer.
GetPageCall(page_num) ==
    /\ phase = "open"
    /\ IF PageOutOfBounds(page_num)
       THEN /\ out' = [ cmd |-> "get_page",
                        lines |-> << Line("Exception: Page number out of bounds.",
                                          << page_num >>) >> ]
            /\ UNCHANGED pages
       ELSE /\ pages' = get_page(pages, page_num)
            /\ out' = [ cmd |-> "get_page",
                        lines |-> << Line("returned", << page_num, pages'[page_num] >>) >> ]
    /\ UNCHANGED << file, file_length, num_pages, phase, inserted, atClose, walVars >>

\* Page numbers a caller may ask for, on both sides of the capacity.
ProbePages == { 0, 1, 2, TABLE_MAX_PAGES - 1, TABLE_MAX_PAGES, TABLE_MAX_PAGES + 1 }

GetPageAny == \E page_num \in ProbePages : GetPageCall(page_num)

\* An insert command with the next row id in ascending order.
InsertAscending ==
    \E u \in Users :
        /\ Len(inserted) < MaxAppends
        /\ ExecuteInsert(Len(inserted), u[1], u[2])

\* Row ids and users of insert commands that may repeat a row id.
DupKeys == 0 .. MaxDupKey

DupUsers == Users \cup { <<"bob", "bob@x.com">> }

\* An insert command with any row id, used before or not.
InsertAnyKey ==
    \E row_id \in DupKeys, u \in DupUsers :
        /\ Len(inserted) < MaxDupInserts
        /\ ExecuteInsert(row_id, u[1], u[2])

\* ------------------------------------------- the transactional engine
\* src/benchmark.py drives classes BTree and WAL of a later main.py that is not
\* part of the sources; they are modelled from the specification: a tree by
\* the cells it holds in key order, the log by its durable records.
WalUsers == { "u0", "u1" }

EmailOf(user) == IF user = "u0" THEN "u0@benchmark.com" ELSE "u1@benchmark.com"

\* hash(string) -> uint32: opaque and deterministic.
hash_email(email) == IF email = "u0@benchmark.com" THEN 17 ELSE 5

\* BTree.insert: append the cell, then re-sort by key ascending (a stable sort).
BTreeInsert(t, key, value) ==
    LET n == Cardinality({ j \in 1 .. Len(t) : t[j].key <= key })
    IN  SubSeq(t, 1, n) \o << [ key |-> key, value |-> value ] >>
        \o SubSeq(t, n + 1, Len(t))

\* How many cells of the tree hold this key and value.
BTreeCount(t, key, value) ==
    Cardinality({ j \in 1 .. Len(t) : t[j].key = key /\ t[j].value = value })

\* WAL.log_start: the next transaction id.
NextTxnId(log) ==
    1 + (IF log = << >> THEN 0
         ELSE LET ids == { log[j].txnId : j \in 1 .. Len(log) }
              IN  CHOOSE m \in ids : \A k \in ids : k <= m)

StartRecord(id, row) == [ txnId |-> id, status |-> "START", payload |-> row ]
CommitRecord(id) == [ txnId |-> id, status |-> "COMMIT", payload |-> ZeroRow ]

\* WAL.log_start: append a START record and force it to stable storage.
log_start(log, row) == Append(log, StartRecord(NextTxnId(log), row))

\* Variant of log_commit whose record never reaches the log.
log_commit_lost(log, id) == log

\* WAL.log_commit: append a COMMIT record and force it to stable storage.
log_commit(log, id) == Append(log, CommitRecord(id))

\* recover(): scan the log from the beginning; a START enters the table of
\* interrupted transactions, a COMMIT removes its transaction from it.
RECURSIVE ScanLog(_, _, _)
ScanLog(log, k, open) ==
    IF k > Len(log) THEN open
    ELSE IF log[k].status = "START"
         THEN ScanLog(log, k + 1,
                      SelectSeq(open, LAMBDA r : r.txnId # log[k].txnId)
                      \o << log[k] >>)
         ELSE ScanLog(log, k + 1,
                      SelectSeq(open, LAMBDA r : r.txnId # log[k].txnId))

\* Variant of the loop body that commits before the index insert.
TxnOrderCommitEarly == << "log_start", "db_insert", "log_commit", "idx_insert" >>

\* The body of run_benchmark's loop, in program order.
TxnOrder == << "log_start", "db_insert", "idx_insert", "log_commit" >>

\* The row the loop is at.
CurrentRow == records[nrec + 1]

\* One operation of the loop body is done: on to the next, or to the next row.
StepDone ==
    IF pos = Len(TxnOrder)
    THEN pos' = 1 /\ nrec' = nrec + 1
    ELSE pos' = pos + 1 /\ nrec' = nrec

AtOp(op) == wpc = "loop" /\ nrec < Len(records) /\ TxnOrder[pos] = op

\* txn_id = wal.log_start(row_id, username, email)
LogStart ==
    /\ AtOp("log_start")
    /\ txn_id' = NextTxnId(wal)
    /\ wal' = log_start(wal, CurrentRow)
    /\ StepDone
    /\ UNCHANGED << tableVars, records, db, idx, dbFile, idxFile, wpc, todo,
                    walAtRecover >>

\* db.insert(row_id, row_bytes)
DbInsert ==
    /\ AtOp("db_insert")
    /\ db' = BTreeInsert(db, CurrentRow.id, CurrentRow)
    /\ StepDone
    /\ UNCHANGED << tableVars, records, wal, idx, dbFile, idxFile, wpc, txn_id, todo,
                    walAtRecover >>

\* idx.insert(email_hash, struct.pack('I', row_id))
IdxInsert ==
    /\ AtOp("idx_insert")
    /\ idx' = BTreeInsert(idx, hash_email(CurrentRow.email), CurrentRow.id)
    /\ StepDone
    /\ UNCHANGED << tableVars, records, wal, db, dbFile, idxFile, wpc, txn_id, todo,
                    walAtRecover >>

\* wal.log_commit(txn_id)
LogCommit ==
    /\ AtOp("log_commit")
    /\ wal' = log_commit(wal, txn_id)
    /\ StepDone
    /\ UNCHANGED << tableVars, records, db, idx, dbFile, idxFile, wpc, txn_id, todo,
                    walAtRecover >>

\* db.close(): the primary tree's pages reach its file.
CloseDb ==
    /\ wpc = "loop" /\ nrec = Len(records) /\ pos = 1
    /\ dbFile' = db
    /\ wpc' = "close_idx"
    /\ UNCHANGED << tableVars, records, wal, db, idx, idxFile, pos, nrec, txn_id, todo,
                    walAtRecover >>

\* idx.close()
CloseIdx ==
    /\ wpc = "close_idx"
    /\ idxFile' = idx
    /\ wpc' = "done"
    /\ UNCHANGED << tableVars, records, wal, db, idx, dbFile, pos, nrec, txn_id, todo,
                    walAtRecover >>

\* The process dies: what was only in memory is lost, the files stay; the
\* engine is then started again on them.
Crash ==
    /\ wpc \in { "loop", "close_idx", "replay" }
    /\ db' = dbFile
    /\ idx' = idxFile
    /\ wpc' = "recover"
    /\ pos' = 1
    /\ todo' = << >>
    /\ txn_id' = 0
    /\ UNCHANGED << tableVars, records, wal, dbFile, idxFile, nrec, walAtRecover >>

\* recover(primaryTree, secondaryIndex): the scan.
Recover ==
    /\ wpc = "recover"
    /\ todo' = ScanLog(wal, 1, << >>)
    /\ walAtRecover' = wal
    /\ wpc' = IF todo' = << >> THEN "recovered" ELSE "replay"
    /\ pos' = 1
    /\ UNCHANGED << tableVars, records, wal, db, idx, dbFile, idxFile, nrec, txn_id >>

\* recover(): replay of the first interrupted transaction left, one call a step:
\* the primary insert, the index insert, then the COMMIT record.
ReplayDb ==
    /\ wpc = "replay" /\ pos = 1
    /\ db' = BTreeInsert(db, todo[1].payload.id, todo[1].payload)
    /\ pos' = 2
    /\ UNCHANGED << tableVars, records, wal, idx, dbFile, idxFile, wpc, nrec, txn_id,
                    todo, walAtRecover >>

ReplayIdx ==
    /\ wpc = "replay" /\ pos = 2
    /\ idx' = BTreeInsert(idx, hash_email(todo[1].payload.email), todo[1].payload.id)
    /\ pos' = 3
    /\ UNCHANGED << tableVars, records, wal, db, dbFile, idxFile, wpc, nrec, txn_id,
                    todo, walAtRecover >>

ReplayCommit ==
    /\ wpc = "replay" /\ pos = 3
    /\ wal' = log_commit(wal, todo[1].txnId)
    /\ todo' = Tail(todo)
    /\ pos' = 1
    /\ wpc' = IF todo' = << >> THEN "recovered" ELSE "replay"
    /\ UNCHANGED << tableVars, records, db, idx, dbFile, idxFile, nrec, txn_id,
                    walAtRecover >>

\* After recovery the loop goes on with the rows no transaction was started for.
Resume ==
    /\ wpc = "recovered"
    /\ wpc' = "loop"
    /\ pos' = 1
    /\ nrec' = Cardinality({ j \in 1 .. Len(wal) : wal[j].status = "START" })
    /\ UNCHANGED << tableVars, records, wal, db, idx, dbFile, idxFile, txn_id, todo,
                    walAtRecover >>

\* clean_database() and the engine's construction: empty files, empty trees.
EngineStart ==
    /\ records = << >>
    /\ wal = << >>
    /\ db = << >>
    /\ idx = << >>
    /\ dbFile = << >>
    /\ idxFile = << >>
    /\ wpc = "generate"
    /\ pos = 1
    /\ nrec = 0
    /\ txn_id = 0
    /\ todo = << >>
    /\ walAtRecover = << >>

\* The rows are pre-generated: ids 0, 1, ... in order, each with a random user.
Generate ==
    /\ wpc = "generate"
    /\ \E u \in [ 1 .. NumInserts -> WalUsers ] :
          records' = [ i \in 1 .. NumInserts |->
                         serialize_row(i - 1, u[i], EmailOf(u[i])) ]
    /\ wpc' = "loop"
    /\ UNCHANGED << tableVars, wal, db, idx, dbFile, idxFile, pos, nrec, txn_id, todo,
                    walAtRecover >>

\* ------------------------------------------------------- specifications
Init == TableStart /\ EngineStart

\* The table of src/main.py under insert and select commands, exits and restarts.
Next == InsertNew \/ ExecuteSelect \/ Close \/ Open

Spec == Init /\ [][Next]_vars

\* The pager under direct get_page calls.
NextPager == InsertAscending \/ GetPageAny

SpecPager == Init /\ [][NextPager]_vars

\* The command loop fed with ascending row ids (the append-only workload).
NextAppend == InsertAscending \/ ExecuteSelect \/ Close \/ Open

SpecAppend == Init /\ [][NextAppend]_vars

\* The command loop fed with row ids that may repeat.
NextDup == InsertAnyKey \/ ExecuteSelect

SpecDup == Init /\ [][NextDup]_vars

\* The transactional insert loop, crashes and recovery.
NextWal ==
    \/ Generate
    \/ LogStart \/ DbInsert \/ IdxInsert \/ LogCommit \/ CloseDb \/ CloseIdx
    \/ Crash \/ Recover \/ ReplayDb \/ ReplayIdx \/ ReplayCommit \/ Resume

SpecWal == Init /\ [][NextWal]_vars

\* ------------------------------------------------------------ properties
\* Page n as the program holds it: the cached buffer, else what the file has.
Stored(n) ==
    IF n \in DOMAIN pages THEN pages[n]
    ELSE IF n < Len(file) THEN file[n + 1] ELSE ZeroPage

\* The number of pages of the table, live or on file.
PageCount == IF phase = "open" THEN num_pages ELSE Len(file)

PageNumbers == 0 .. PageCount - 1

\* The keys of a node's cells, in storage order.
CellKeys(node) == [ j \in 1 .. Len(node.cells) |-> node.cells[j].key ]

StrictlyAscending(seq) == \A j \in 1 .. Len(seq) - 1 : seq[j] < seq[j + 1]

\* The last insert command split the root.
JustSplit ==
    /\ out.cmd = "insert"
    /\ \E j \in 1 .. Len(out.lines) : out.lines[j].text = "DEBUG: Split Root."

\* The first n insert commands were for the row ids 0 .. n-1, in this order,
\* and no other insert was issued.
AscendingRun(n) ==
    /\ Len(inserted) = n
    /\ \A j \in 1 .. n : inserted[j].id = j - 1

\* C1: every row inserted so far (distinct keys) is held, with its value, by
\* the leaf page that find_leaf_page returns for its key.
C1_SearchInsertRoundTrip ==
    phase = "open" =>
        \A j \in 1 .. Len(inserted) :
            LET found == find_leaf_page(pages, inserted[j].id)
                leaf == found.pages[found.page_num]
            IN  \E c \in 1 .. get_node_num_cells(leaf) :
                    /\ leaf_cell(leaf, c - 1).key = inserted[j].id
                    /\ leaf_cell(leaf, c - 1).value = inserted[j]

\* C2: the cell keys of every leaf node are strictly ascending in storage order.
C2_SortedLeaves ==
    \A n \in PageNumbers :
        get_node_type(Stored(n)) = NODE_LEAF => StrictlyAscending(CellKeys(Stored(n)))

\* C3: page 0 carries the is-root flag and no other page does, and every other
\* page of the table is a child named by a routing cell of page 0.
C3_RootStability ==
    /\ 0 \in PageNumbers
    /\ \A n \in PageNumbers : (Stored(n).is_root # 0) <=> (n = 0)
    /\ \A n \in PageNumbers \ {0} :
          /\ get_node_type(Stored(0)) = NODE_INTERNAL
          /\ \E j \in 1 .. get_node_num_cells(Stored(0)) : Stored(0).cells[j].child = n

\* C3 witness: the table was split, closed and opened again.
C3_Witness ==
    /\ phase = "open" /\ out.cmd = "open"
    /\ num_pages = 3
    /\ get_node_type(Stored(0)) = NODE_INTERNAL

\* C4 as stated: after capacity+1 ascending inserts into an empty tree there was
\* one split, on the last insert, and the left leaf holds the lowest
\* (capacity+1) div 2 keys, the right leaf the others.
SplitPartitionAt(half) ==
    /\ \A n \in 0 .. LEAF_NODE_MAX_CELLS :
          AscendingRun(n) =>
              /\ PageCount = 1
              /\ get_node_type(Stored(0)) = NODE_LEAF
    /\ AscendingRun(LEAF_NODE_MAX_CELLS + 1) =>
          /\ PageCount = 3
          /\ get_node_type(Stored(0)) = NODE_INTERNAL
          /\ get_node_num_cells(Stored(0)) = 2
          /\ LET left == Stored(Stored(0).cells[1].child)
                 right == Stored(Stored(0).cells[2].child)
             IN  /\ get_node_type(left) = NODE_LEAF
                 /\ get_node_type(right) = NODE_LEAF
                 /\ get_node_num_cells(left) = half
                 /\ CellKeys(left) = [ j \in 1 .. half |-> j - 1 ]
                 /\ get_node_num_cells(right) = LEAF_NODE_MAX_CELLS + 1 - half
                 /\ CellKeys(right) =
                        [ j \in 1 .. LEAF_NODE_MAX_CELLS + 1 - half |-> half + j - 1 ]

C4_SplitPartitionAsStated == SplitPartitionAt((LEAF_NODE_MAX_CELLS + 1) \div 2)

\* C4, amended: after capacity+1 ascending inserts into an empty tree there was
\* one split, on the last insert, and the left leaf holds the lowest
\* capacity div 2 keys, the right leaf all the others.
C4_SplitPartition == SplitPartitionAt(LEAF_NODE_MAX_CELLS \div 2)

\* C4 witness: the run of capacity+1 ascending inserts has just ended in a split.
C4_Witness == AscendingRun(LEAF_NODE_MAX_CELLS + 1) /\ JustSplit

\* C5: right after a split of the root leaf, page 0 is an internal node of
\* exactly two routing cells, (last key of the left leaf, left page) and
\* (sentinel, right page); the two pages are the two just allocated, leaves,
\* distinct from page 0 and from each other.
C5_RootRewrite ==
    JustSplit =>
        LET root == Stored(0)
            left_page == num_pages - 2
            right_page == num_pages - 1
        IN  /\ get_node_type(root) = NODE_INTERNAL
            /\ get_node_num_cells(root) = 2
            /\ Len(root.cells) = 2
            /\ left_page # 0 /\ right_page # 0 /\ left_page # right_page
            /\ get_node_type(Stored(left_page)) = NODE_LEAF
            /\ get_node_type(Stored(right_page)) = NODE_LEAF
            /\ get_node_num_cells(Stored(left_page)) > 0
            /\ root.cells[1] =
                   [ key |-> Stored(left_page).cells[Len(Stored(left_page).cells)].key,
                     child |-> left_page ]
            /\ root.cells[2] = [ key |-> MAX_INT_KEY, child |-> right_page ]

\* C5 witness: a split caused by a key that is not the largest so far.
C5_Witness ==
    /\ JustSplit
    /\ \E j \in 1 .. Len(inserted) - 1 : inserted[j].id > inserted[Len(inserted)].id

\* The cells of t2 that t does not hold as often.
AddedCells(t, t2) ==
    { c \in { t2[j] : j \in 1 .. Len(t2) } :
        Cardinality({ j \in 1 .. Len(t2) : t2[j] = c })
        > Cardinality({ j \in 1 .. Len(t) : t[j] = c }) }

\* The log holds a START for this row whose transaction has no COMMIT yet.
OpenStartFor(log, row) ==
    \E j \in 1 .. Len(log) :
        /\ log[j].status = "START" /\ log[j].payload = row
        /\ \A k \in 1 .. Len(log) :
              ~(log[k].status = "COMMIT" /\ log[k].txnId = log[j].txnId)

\* C6: a step that adds a cell to the primary tree or to the secondary index
\* finds the START record of that row's transaction already in the log, and a
\* step that appends a COMMIT record finds the row of its transaction already in
\* the primary tree and in the secondary index.
C6_WalOrdering ==
    [][ /\ \A c \in AddedCells(db, db') : OpenStartFor(wal, c.value)
        /\ \A c \in AddedCells(idx, idx') :
              \E j \in 1 .. Len(wal) :
                  /\ OpenStartFor(wal, wal[j].payload)
                  /\ wal[j].status = "START"
                  /\ wal[j].payload.id = c.value
                  /\ hash_email(wal[j].payload.email) = c.key
        /\ (Len(wal') = Len(wal) + 1 /\ wal'[Len(wal')].status = "COMMIT") =>
              \E j \in 1 .. Len(wal) :
                  /\ wal[j].status = "START"
                  /\ wal[j].txnId = wal'[Len(wal')].txnId
                  /\ BTreeCount(db, wal[j].payload.id, wal[j].payload) >= 1
                  /\ BTreeCount(idx, hash_email(wal[j].payload.email),
                                wal[j].payload.id) >= 1
      ]_vars

\* C6 witness: the loop committed its second transaction with no crash before.
C6_Witness ==
    /\ wpc = "loop" /\ nrec = 2 /\ pos = 1
    /\ walAtRecover = << >>
    /\ Len(wal) = 4 /\ wal[4].status = "COMMIT"
    /\ Len(db) = 2 /\ Len(idx) = 2

\* The START records of the log with no later COMMIT of their transaction.
Interrupted(log) ==
    { j \in 1 .. Len(log) :
        /\ log[j].status = "START"
        /\ \A k \in j + 1 .. Len(log) :
              ~(log[k].status = "COMMIT" /\ log[k].txnId = log[j].txnId) }

\* C7: when recover() has returned, the row of every START record that had no
\* later COMMIT in the log recover() was given is exactly once in the primary
\* tree and exactly once in the secondary index, and the log holds a COMMIT for
\* its transaction.
C7_CrashRecovery ==
    wpc = "recovered" =>
        \A j \in Interrupted(walAtRecover) :
            LET row == walAtRecover[j].payload
            IN  /\ BTreeCount(db, row.id, row) = 1
                /\ BTreeCount(idx, hash_email(row.email), row.id) = 1
                /\ \E k \in 1 .. Len(wal) :
                      wal[k].status = "COMMIT" /\ wal[k].txnId = walAtRecover[j].txnId

\* C7 witness: recover() has returned after a crash that interrupted the second
\* transaction, the first one being committed.
C7_Witness ==
    /\ wpc = "recovered"
    /\ Interrupted(walAtRecover) # {}
    /\ Len(walAtRecover) = 3

\* The rows of a select are in ascending order of row id.
RowsAscending(rows) == \A j \in 1 .. Len(rows) - 1 : rows[j][1] < rows[j + 1][1]

\* C8: the rows a select command printed are in ascending key order.
C8_OrderedScan == out.cmd = "select" => RowsAscending(out.lines)

\* What a get_page call did, read from a step of the pager.
GetPageRaised == out'.lines[1].text = "Exception: Page number out of bounds."
GetPageArg == out'.lines[1].args[1]

GetPageContract(fails_when) ==
    out'.cmd = "get_page" =>
        /\ GetPageRaised <=> fails_when
        /\ GetPageRaised => pages' = pages /\ num_pages' = num_pages
        /\ ~GetPageRaised =>
              /\ GetPageArg \in DOMAIN pages'
              /\ out'.lines[1].args[2] = pages'[GetPageArg]
              /\ pages'[GetPageArg] = Stored(GetPageArg)
              /\ \A n \in DOMAIN pages : pages'[n] = pages[n]
              /\ DOMAIN pages' = DOMAIN pages \cup { GetPageArg }

\* C9 as stated: get_page(n) raises exactly when n > TABLE_MAX_PAGES.
C9_GetPageCapacityAsStated ==
    [][ GetPageContract(GetPageArg > TABLE_MAX_PAGES) ]_vars

\* C9, amended: get_page(n), n >= 0, raises exactly when n >= TABLE_MAX_PAGES
\* and then leaves the cache and the page count as they were; otherwise it
\* returns the buffer of page n, which is then cached.
C9_GetPageCapacity ==
    [][ GetPageContract(GetPageArg >= TABLE_MAX_PAGES) ]_vars

\* C9 witness: get_page(TABLE_MAX_PAGES) has raised.
C9_Witness ==
    /\ out.cmd = "get_page"
    /\ out.lines[1].text = "Exception: Page number out of bounds."
    /\ out.lines[1].args[1] = TABLE_MAX_PAGES

\* C10: after close() the file holds every page that was cached, page n at
\* offset n * PAGE_SIZE, and is as many pages long as the table was; right after
\* the next open the table has that page count, get_page gives those pages as
\* they were, and a select prints the rows it would have printed at close.
C10_CloseReopen ==
    /\ phase = "closed" =>
          /\ FileLength(file) = atClose.num_pages * PAGE_SIZE
          /\ \A n \in DOMAIN atClose.pages :
                ReadAt(file, n * PAGE_SIZE) = atClose.pages[n]
    /\ (phase = "open" /\ out.cmd = "open" /\ atClose.num_pages > 0) =>
          /\ num_pages = atClose.num_pages
          /\ \A n \in DOMAIN atClose.pages : get_page(pages, n)[n] = atClose.pages[n]
          /\ execute_select(pages).rows = atClose.rows

\* C10 witness: a table that was split is open again after a close.
C10_Witness ==
    /\ phase = "open" /\ out.cmd = "open"
    /\ atClose.num_pages = 3
    /\ Len(atClose.rows) = LEAF_NODE_MAX_CELLS + 1

\* C11: the backing file changes only in the step of close(), which writes the
\* cached pages; an insert or a select leaves the file as it was, so what they
\* changed is in the page cache only.
C11_FlushOnly ==
    [][ /\ out'.cmd \in { "insert", "select" } => file' = file
        /\ file' # file =>
              /\ phase = "open" /\ phase' = "closed" /\ out'.cmd = "close"
              /\ file' = PagerClose(file, pages) ]_vars

\* C11 witness: a table reopened from a file that has pages has taken an insert,
\* and the cached page of the insert differs from what the file holds.
C11_Witness ==
    /\ phase = "open" /\ out.cmd = "insert"
    /\ Len(file) > 0
    /\ \E n \in DOMAIN pages : n < Len(file) /\ pages[n] # file[n + 1]

\* The keys stored in the leaves of the subtree rooted at page n, looking at
\* most depth levels down.
RECURSIVE SubtreeKeys(_, _)
SubtreeKeys(n, depth) ==
    LET node == Stored(n)
    IN  IF node.type = NODE_LEAF
        THEN { node.cells[j].key : j \in 1 .. Len(node.cells) }
        ELSE IF depth = 0 THEN {}
        ELSE UNION { SubtreeKeys(node.cells[j].child, depth - 1) :
                       j \in 1 .. Len(node.cells) }

\* The pages that hold internal nodes.
InternalPages == { n \in PageNumbers : Stored(n).type = NODE_INTERNAL }

\* C12: for every cell (maxKey, childPage) of an internal node, every key
\* stored in the subtree reached through childPage is <= maxKey.
C12_RoutingBound ==
    \A n \in InternalPages :
        \A j \in 1 .. Len(Stored(n).cells) :
            \A k \in SubtreeKeys(Stored(n).cells[j].child, PageCount) :
                k <= Stored(n).cells[j].key

\* Keys to route: the row ids in use, the next one, and the largest two.
ProbeKeys == Keys \cup { MaxKey + 1, MAX_INT_KEY - 1, MAX_INT_KEY }

\* Page leaf is reached from page n by going, at each internal node, into the
\* child of the first cell whose maxKey is >= key, at most depth levels down.
RECURSIVE Descends(_, _, _, _)
Descends(n, key, leaf, depth) ==
    LET node == Stored(n)
    IN  IF node.type # NODE_INTERNAL THEN leaf = n
        ELSE /\ depth > 0
             /\ \E j \in 1 .. Len(node.cells) :
                   /\ node.cells[j].key >= key
                   /\ \A i \in 1 .. j - 1 : node.cells[i].key < key
                   /\ Descends(node.cells[j].child, key, leaf, depth - 1)

\* C13: for every key, find_leaf_page(key) ends without an error and returns
\* the page number of a leaf node, reached from page 0 through the first cell
\* with maxKey >= key of each internal node; the last cell of every internal
\* node carries the largest key.
C13_Routing ==
    /\ \A n \in InternalPages :
          /\ Len(Stored(n).cells) >= 1
          /\ Stored(n).cells[Len(Stored(n).cells)].key = MAX_INT_KEY
    /\ phase = "open" =>
          \A key \in ProbeKeys :
              LET found == find_leaf_page(pages, key)
              IN  /\ found.lines = << >>
                  /\ found.page_num \in PageNumbers
                  /\ get_node_type(found.pages[found.page_num]) = NODE_LEAF
                  /\ Descends(0, key, found.page_num, PageCount)

\* C13 witness: the root is an internal node; the largest key is routed through
\* its last cell and key 0 through its first cell, to two different leaves.
C13_Witness ==
    /\ phase = "open"
    /\ Stored(0).type = NODE_INTERNAL
    /\ find_leaf_page(pages, MAX_INT_KEY).page_num = Stored(0).cells[2].child
    /\ find_leaf_page(pages, 0).page_num = Stored(0).cells[1].child
    /\ Stored(0).cells[1].child # Stored(0).cells[2].child

\* The row of the last insert command, and the leaf find_leaf_page gave it.
LastRow == inserted[Len(inserted)]

\* The pages that hold leaf nodes.
LeafPages == { n \in PageNumbers : Stored(n).type = NODE_LEAF }

\* The internal nodes that hold a routing cell whose child is page n.
ParentsOf(n) ==
    { p \in InternalPages :
        \E j \in 1 .. Len(Stored(p).cells) : Stored(p).cells[j].child = n }

\* A line with this text was printed by the last command.
Printed(text) == \E j \in 1 .. Len(out.lines) : out.lines[j].text = text

\* C14: an insert whose target leaf is full and is not the root splits that
\* leaf (one more page), the cell count of the leaf's parent grows by one, and
\* the inserted key is stored in a leaf afterwards.
C14_NonRootSplit ==
    [][ (phase = "open" /\ out'.cmd = "insert") =>
          LET key == LastRow'.id
              target == find_leaf_page(pages, key).page_num
              node == Stored(target)
          IN  (get_node_num_cells(node) >= LEAF_NODE_MAX_CELLS /\ node.is_root = 0) =>
                /\ num_pages' = num_pages + 1
                /\ \A p \in ParentsOf(target) :
                      get_node_num_cells(pages'[p]) = get_node_num_cells(Stored(p)) + 1
                /\ \E n \in DOMAIN pages' :
                      /\ pages'[n].type = NODE_LEAF
                      /\ \E j \in 1 .. Len(pages'[n].cells) : pages'[n].cells[j].key = key
      ]_vars

\* The row of the last insert command is stored in a leaf of the tree.
LastRowStored ==
    \E n \in LeafPages :
        \E j \in 1 .. Len(Stored(n).cells) :
            /\ Stored(n).cells[j].key = LastRow.id
            /\ Stored(n).cells[j].value = LastRow

\* C15: an insert whose row is not stored in the tree does not report
\* "Executed.".
C15_NoSilentFailure ==
    (out.cmd = "insert" /\ ~LastRowStored) => ~Printed("Executed.")

\* The pages visited from page n by following forward pointers until one is 0,
\* at most fuel pages.
RECURSIVE LeafChain(_, _)
LeafChain(n, fuel) ==
    IF fuel = 0 THEN << >>
    ELSE << n >> \o (IF Stored(n).next_leaf = 0 THEN << >>
                     ELSE LeafChain(Stored(n).next_leaf, fuel - 1))

\* The rows held by the cells of the pages of a chain, in order.
RECURSIVE ChainRows(_)
ChainRows(chain) ==
    IF chain = << >> THEN << >>
    ELSE [ j \in 1 .. Len(Stored(Head(chain)).cells) |->
             deserialize_row(Stored(Head(chain)).cells[j].value) ]
         \o ChainRows(Tail(chain))

\* The scan from the leftmost leaf ends at a leaf whose forward pointer is 0,
\* has visited every leaf page once, and a select prints the row of every
\* stored cell once.
ScanComplete ==
    phase = "open" =>
        LET first == start_reading(pages).page_num
            chain == LeafChain(first, PageCount + 1)
        IN  /\ Len(chain) <= PageCount
            /\ Stored(chain[Len(chain)]).next_leaf = 0
            /\ { chain[j] : j \in 1 .. Len(chain) } = LeafPages
            /\ Len(chain) = Cardinality(LeafPages)
            /\ execute_select(pages).rows = ChainRows(chain)

\* A split leaves the cells of the split leaf in a left leaf that points to the
\* new right leaf, and the right leaf has the forward pointer that the split
\* leaf had.
SplitLinks ==
    (phase = "open" /\ JustSplit') =>
        LET orig == find_leaf_page(pages, LastRow'.id).page_num
            left == num_pages
            right == num_pages + 1
        IN  /\ pages'[left].type = NODE_LEAF /\ pages'[right].type = NODE_LEAF
            /\ pages'[left].next_leaf = right
            /\ pages'[right].next_leaf = Stored(orig).next_leaf

\* C16: in every state a select scan from the leftmost leaf along the forward
\* pointers ends, visits every leaf page once and prints every stored cell once;
\* a split links the left leaf to the new right leaf, which gets the forward
\* pointer of the leaf that was split.
C16_ScanComplete == []ScanComplete /\ [][SplitLinks]_vars

\* C16 witness: a select on a tree of two leaves has printed every inserted row.
C16_Witness ==
    /\ phase = "open" /\ out.cmd = "select"
    /\ Cardinality(LeafPages) = 2
    /\ Len(out.lines) = LEAF_NODE_MAX_CELLS + 1
    /\ Len(inserted) = LEAF_NODE_MAX_CELLS + 1

\* The cells of the tree that hold this key: (page, index) pairs.
KeyCells(key) ==
    { c \in LeafPages \X (1 .. LEAF_NODE_MAX_CELLS) :
        /\ c[2] <= Len(Stored(c[1]).cells)
        /\ Stored(c[1]).cells[c[2]].key = key }

\* C17: an insert of a key that is already stored, into a leaf that is not
\* full, is not refused and not merged: the leaf keeps its cells and gets one
\* more, holding the new row, and the tree holds one more cell with that key.
C17_DuplicateKeys ==
    [][ (phase = "open" /\ out'.cmd = "insert") =>
          \A key \in { LastRow'.id } :
              LET target == find_leaf_page(pages, key).page_num
                  node == Stored(target)
                  n == get_node_num_cells(node)
              IN  (KeyCells(key) # {} /\ n < LEAF_NODE_MAX_CELLS) =>
                    /\ out'.lines = << Line("Executed.", << >>) >>
                    /\ get_node_num_cells(pages'[target]) = n + 1
                    /\ SubSeq(pages'[target].cells, 1, n) = node.cells
                    /\ pages'[target].cells[n + 1] = [ key |-> key, value |-> LastRow' ]
                    /\ Cardinality(KeyCells(key)') = Cardinality(KeyCells(key)) + 1
      ]_vars

\* C17 witness: after an insert, a leaf holds two cells with the key of that
\* insert and different rows.
C17_Witness ==
    /\ phase = "open" /\ out.cmd = "insert"
    /\ \E c \in KeyCells(LastRow.id), d \in KeyCells(LastRow.id) :
          /\ c[1] = d[1] /\ c[2] < d[2]
          /\ Stored(c[1]).cells[c[2]].value # Stored(d[1]).cells[d[2]].value
          /\ Stored(d[1]).cells[d[2]].value = LastRow

\* C18: the parent page number in the header of every node that is not the
\* root is the page number of an internal node that holds a routing cell whose
\* child is that node.
C18_ParentReference ==
    \A n \in PageNumbers :
        Stored(n).is_root = 0 => Stored(n).parent \in ParentsOf(n)

\* C18 witness: the tree has a root and two leaves that are not the root, both
\* children of the root.
C18_Witness ==
    /\ PageCount = 3
    /\ Stored(0).is_root # 0
    /\ \A n \in { 1, 2 } :
          /\ Stored(n).type = NODE_LEAF /\ Stored(n).is_root = 0
          /\ ParentsOf(n) = { 0 }

\* C19: between operations every leaf holds at most LEAF_NODE_MAX_CELLS cells,
\* so the cells of a leaf end within its page.
C19_LeafCapacity ==
    \A n \in LeafPages :
        /\ get_node_num_cells(Stored(n)) <= LEAF_NODE_MAX_CELLS
        /\ Len(Stored(n).cells) <= LEAF_NODE_MAX_CELLS
        /\ COMMON_NODE_HEADER_SIZE
              + get_node_num_cells(Stored(n)) * LEAF_NODE_CELL_SIZE <= PAGE_SIZE

\* C19 witness: an insert has found its leaf, not the root, full, and the leaf
\* holds LEAF_NODE_MAX_CELLS cells.
C19_Witness ==
    /\ phase = "open" /\ out.cmd = "insert"
    /\ Printed("Error: Splitting non-root leaf not implemented.")
    /\ \E n \in LeafPages :
          /\ Stored(n).is_root = 0
          /\ get_node_num_cells(Stored(n)) = LEAF_NODE_MAX_CELLS
          /\ find_leaf_page(pages, LastRow.id).page_num = n

====
